---------------------------- MODULE Spec2Model ----------------------------
(***************************************************************************)
(* Model of src/src/App.jsx: the Markdown converter component.  The state  *)
(* is the six useState fields of App, the conversions whose await is still *)
(* pending, the pending setTimeout callbacks, the system clipboard and the *)
(* event handled last.  Every event handler is one action: React applies   *)
(* the setters of one handler (or of one continuation after an await)      *)
(* before the next event is dispatched.                                    *)
(*                                                                         *)
(* A JavaScript string is a sequence of lexemes.  The lexemes the regular  *)
(* expression of line 86 tells apart are the fence (three backquotes), the   *)
(* word "markdown", a whitespace character and any other character; a     *)
(* message is a sequence of message fragments.  "" is << >>, + is \o.      *)
(***************************************************************************)
EXTENDS Naturals, Sequences, FiniteSets

VARIABLES
    inputText,       \* useState(""), line 9
    markdownOutput,  \* useState(""), line 11
    isLoading,       \* useState(false), line 13
    error,           \* useState(""), line 15
    copyButtonText,  \* useState("Copy Markdown"), line 17
    showPreview,     \* useState(false), line 19
    inflight,        \* the pending convertToMarkdown calls, oldest first: which call, and the await it is suspended at
    triggers,        \* number of convertToMarkdown invocations so far
    posts,           \* number of fetch(apiUrl, {method: "POST"}) calls issued so far
    uncaught,        \* TRUE once an exception has left convertToMarkdown
    timers,          \* pending setTimeout callbacks of line 113, oldest first: seconds left of each
    clipboard,       \* the text on the system clipboard
    lastEvent        \* the event handled last, with what the environment delivered in it

vars == <<inputText, markdownOutput, isLoading, error, copyButtonText, showPreview,
          inflight, triggers, posts, uncaught, timers, clipboard, lastEvent>>

ui == <<inputText, markdownOutput, isLoading, error, copyButtonText, showPreview>>

-----------------------------------------------------------------------------
(* Bounds *)

\* conversions triggered in one run
MaxCalls == 2
\* setTimeout callbacks pending at once
MaxTimers == 2
\* longest response text (in lexemes) of the fence-stripping specification
MaxLen == 3
\* longest body wrapped in a ```markdown fence pair
MaxBody == 3

-----------------------------------------------------------------------------
(* Strings *)

\* the three backquotes of a code fence
Fence == "fence"
Tag == "markdown"
NL == "\n"
Chr == "a"

Lexemes == {Fence, Tag, NL, Chr}

\* \s of the regular expression, and the characters String.prototype.trim removes
IsSpace(c) == c = NL

\* all strings of at most n lexemes
RECURSIVE StringsUpTo(_)
StringsUpTo(n) ==
    IF n = 0 THEN {<< >>}
    ELSE LET shorter == StringsUpTo(n - 1)
         IN  shorter \cup {Append(s, c) : s \in {t \in shorter : Len(t) = n - 1}, c \in Lexemes}

\* inputText.trim() of line 161 is empty
RECURSIVE IsBlank(_)
IsBlank(s) == s = << >> \/ (IsSpace(Head(s)) /\ IsBlank(Tail(s)))


-----------------------------------------------------------------------------
(* text.replace(/^```markdown\s*|\s*```$/g, ""), line 86 *)

\* the position after the longest run of whitespace that starts at position i
RECURSIVE SpaceRunEnd(_, _)
SpaceRunEnd(t, i) ==
    IF i <= Len(t) /\ IsSpace(t[i]) THEN SpaceRunEnd(t, i + 1) ELSE i

\* with the tag made optional, ^```(markdown)?\s*
LeadingFenceEnd_TagOptional(t, i) ==
    IF i = 1 /\ Len(t) >= 1 /\ t[1] = Fence
    THEN SpaceRunEnd(t, IF Len(t) >= 2 /\ t[2] = Tag THEN 3 ELSE 2)
    ELSE 0

\* first alternative, ^```markdown\s*, tried at position i: the position after
\* the match, 0 when it does not match (^ holds at the start of the text only)
LeadingFenceEnd(t, i) ==
    IF i = 1 /\ Len(t) >= 2 /\ t[1] = Fence /\ t[2] = Tag
    THEN SpaceRunEnd(t, 3)
    ELSE 0

\* second alternative, \s*```$, tried at position i: \s* takes the whole run of
\* whitespace (giving some back never helps: the fence is not whitespace), then
\* the fence must be the last thing of the text ($ without the m flag)
TrailingFenceEnd(t, i) ==
    LET j == SpaceRunEnd(t, i)
    IN  IF j = Len(t) /\ t[j] = Fence THEN Len(t) + 1 ELSE 0

\* the alternatives in their order, at position i
MatchEnd(t, i) ==
    IF LeadingFenceEnd(t, i) # 0 THEN LeadingFenceEnd(t, i) ELSE TrailingFenceEnd(t, i)

\* the g flag: every match from position i on, leftmost first, is replaced by ""
RECURSIVE ReplaceAll(_, _)
ReplaceAll(t, i) ==
    IF i > Len(t) THEN << >>
    ELSE IF MatchEnd(t, i) # 0 THEN ReplaceAll(t, MatchEnd(t, i))
    ELSE <<t[i]>> \o ReplaceAll(t, i + 1)

\* without the g flag: the leftmost match only
RECURSIVE ReplaceFirst(_, _)
ReplaceFirst(t, i) ==
    IF i > Len(t) THEN << >>
    ELSE IF MatchEnd(t, i) # 0 THEN SubSeq(t, MatchEnd(t, i), Len(t))
    ELSE <<t[i]>> \o ReplaceFirst(t, i + 1)

cleanedText_FirstMatchOnly(text) == ReplaceFirst(text, 1)

\* with the leading fence made optional, /^(```markdown)?\s*|\s*```$/g: the
\* whitespace at the start goes too
cleanedText_TrimsStart(text) ==
    LET r == ReplaceAll(text, 1) IN SubSeq(r, SpaceRunEnd(r, 1), Len(r))

cleanedText(text) == ReplaceAll(text, 1)


-----------------------------------------------------------------------------
(* JSON values.  A property that may be absent is a sequence of length 0   *)
(* (absent: undefined, or null for a whole body) or 1 (present).           *)

Absent == << >>
Some(v) == <<v>>

\* { text: <string> } and {} as elements of parts
Part(text) == [text |-> Some(text)]
PartWithoutText == [text |-> Absent]

\* the response bodies with the shape of lines 77-81, first part given
WithParts(parts) ==
    [candidates |-> Some(<<[content |-> Some([parts |-> Some(parts)])]>>)]

WellFormed(text) == WithParts(<<Part(text)>>)

\* the response bodies that miss the shape
NoCandidates == [candidates |-> Absent]
EmptyCandidates == [candidates |-> Some(<< >>)]
NoContent == [candidates |-> Some(<<[content |-> Absent]>>)]
NoParts == [candidates |-> Some(<<[content |-> Some([parts |-> Absent])]>>)]
EmptyParts == WithParts(<< >>)

Malformed == {NoCandidates, EmptyCandidates, NoContent, NoParts, EmptyParts}

\* the condition of the if of lines 76-82
HasContent(result) ==
    /\ result.candidates # Absent
    /\ Len(result.candidates[1]) > 0
    /\ result.candidates[1][1].content # Absent
    /\ result.candidates[1][1].content[1].parts # Absent
    /\ Len(result.candidates[1][1].content[1].parts[1]) > 0

\* result.candidates[0].content.parts[0].text, line 83: Absent when undefined
FirstPartText(result) == result.candidates[1][1].content[1].parts[1][1].text

-----------------------------------------------------------------------------
(* Messages *)

DefaultCopyLabel == "Copy Markdown"
CopiedLabel == "Copied!"

FailedToGenerate == <<"Failed to generate Markdown. Please try again.">>
FailedToCopy == <<"Failed to copy text to clipboard.">>
ErrorPrefix == "An error occurred: "

\* err.message of what the platform throws: a rejected fetch, a body that is
\* not JSON, a property read of null, a method call on undefined
FailedToFetch == <<"Failed to fetch">>
NotJson == <<"Unexpected token < in JSON at position 0">>
ReadOfNull == <<"Cannot read properties of null (reading 'candidates')">>
ReplaceOfUndefined == <<"Cannot read properties of undefined (reading 'replace')">>
\* what document.execCommand throws when the copy is not allowed
CopyNotAllowed == <<"The operation is insecure.">>

\* `An error occurred: ${err.message}`, line 95
ErrorMessage(message) == <<ErrorPrefix>> \o message


-----------------------------------------------------------------------------
(* The inputs of a run *)

\* what the user types into the text area: nothing, whitespace only, text
Inputs == {<< >>, <<NL>>, <<Chr>>}

\* the response texts of the model service
SampleTexts ==
    { << >>,
      <<Chr>>,
      <<Chr, NL, Chr>>,
      <<Fence, Tag, NL, Chr, NL, Fence>>,
      <<Fence, Tag, NL, Fence>> }

\* the response bodies that parse: JSON null, the malformed ones, a first part
\* without text, one part with a text, two parts
JsonBodies ==
    {Absent}
      \cup {Some(r) : r \in Malformed}
      \cup {Some(WithParts(<<PartWithoutText>>))}
      \cup {Some(WellFormed(t)) : t \in SampleTexts}
      \cup {Some(WithParts(<<Part(<<Chr>>), Part(<<Chr, Chr>>)>>))}

\* a response body: one that response.json() rejects, or a JSON value
Unparseable == [parses |-> FALSE, json |-> Absent]
Parsed(json) == [parses |-> TRUE, json |-> json]

Bodies == {Unparseable} \cup {Parsed(j) : j \in JsonBodies}

\* document.execCommand("copy"): returns true, returns false, or throws
ExecCommandOutcomes == {"true", "false", "throw"}

\* an event: the handler or callback that ran, the body response.json() gave
\* it (a settled response.json() only), and what document.execCommand did in
\* it (a copy only; "skipped" when line 104 kept it from being called)
Event(name, body, exec) == [name |-> name, body |-> body, exec |-> exec]

-----------------------------------------------------------------------------
(* convertToMarkdown, lines 30-100 *)

\* an exception raised inside the try block while the call was at `stage`
Thrown(stage, message) ==
    [kind |-> "throw", stage |-> stage, output |-> << >>, message |-> message]

\* lines 76-92 on the parsed body: the outcome of the try block
TryBody(json) ==
    IF json = Absent
    THEN Thrown("shape", ReadOfNull)
    ELSE IF HasContent(json[1])
    THEN LET text == FirstPartText(json[1])
         IN  IF text = Absent
             THEN Thrown("replace", ReplaceOfUndefined)
             ELSE [kind |-> "ok", stage |-> "replace", output |-> cleanedText(text[1]),
                   message |-> << >>]
    ELSE [kind |-> "structural", stage |-> "shape", output |-> << >>, message |-> << >>]

\* the outcome of `await response.json()` and what follows it
AfterJson(body) ==
    IF body.parses THEN TryBody(body.json) ELSE Thrown("json", NotJson)

\* catch (err), line 93: the exceptions of the try block it handles
Handled_FetchOnly(o) == o.stage = "fetch"

Handled(o) == TRUE

\* setMarkdownOutput(cleanedText), line 87
OutputAfter(o, output) == IF o.kind = "ok" THEN o.output ELSE output

\* setError of lines 90 and 95
ErrorAfter_NoStructural(o, err) ==
    IF o.kind = "throw" /\ Handled(o) THEN ErrorMessage(o.message) ELSE err

\* with an empty cleanedText taken for a failure
ErrorAfter_EmptyIsFailure(o, err) ==
    IF o.kind = "structural" \/ (o.kind = "ok" /\ o.output = << >>) THEN FailedToGenerate
    ELSE IF o.kind = "throw" /\ Handled(o) THEN ErrorMessage(o.message)
    ELSE err

ErrorAfter(o, err) ==
    IF o.kind = "structural" THEN FailedToGenerate
    ELSE IF o.kind = "throw" /\ Handled(o) THEN ErrorMessage(o.message)
    ELSE err

\* finally { setIsLoading(false) }, lines 97-99
LoadingAfter_NotOnThrow(o, loading) == IF o.kind = "throw" THEN loading ELSE FALSE

LoadingAfter(o, loading) == FALSE

\* no statement of lines 66-99 issues a request again
PostsAfter_RetryOnFailure(o, n) == IF o.kind = "ok" THEN n ELSE n + 1

PostsAfter(o, n) == n

RemoveAt(seq, i) == SubSeq(seq, 1, i - 1) \o SubSeq(seq, i + 1, Len(seq))

\* lines 32-36
ConvertResets_KeepsPreview ==
    /\ markdownOutput' = << >>
    /\ error' = << >>
    /\ copyButtonText' = DefaultCopyLabel
    /\ isLoading' = TRUE
    /\ showPreview' = showPreview

\* without setError(""), line 33
ConvertResets_KeepsError ==
    /\ markdownOutput' = << >>
    /\ error' = error
    /\ copyButtonText' = DefaultCopyLabel
    /\ isLoading' = TRUE
    /\ showPreview' = FALSE

ConvertResets ==
    /\ markdownOutput' = << >>
    /\ error' = << >>
    /\ copyButtonText' = DefaultCopyLabel
    /\ isLoading' = TRUE
    /\ showPreview' = FALSE

\* the n-th call of convertToMarkdown, suspended at the await of `stage`
Call(n, stage) == [call |-> n, stage |-> stage]

\* the calls in flight once the n-th call has issued its request, line 66:
\* nothing aborts the earlier ones (no AbortController, no signal in line 68)
InflightAfterTrigger_AbortsEarlier(calls, n) == <<Call(n, "fetch")>>

InflightAfterTrigger(calls, n) == Append(calls, Call(n, "fetch"))

\* lines 30-70: the resets, then the POST; the call suspends at `await fetch`
convertToMarkdown ==
    /\ triggers < MaxCalls
    /\ ConvertResets
    /\ triggers' = triggers + 1
    /\ posts' = posts + 1
    /\ inflight' = InflightAfterTrigger(inflight, triggers + 1)
    /\ lastEvent' = Event("convert", Absent, "")
    /\ UNCHANGED <<inputText, uncaught, timers, clipboard>>

\* the call at position i of inflight leaves the try statement with outcome o:
\* the catch clause and the finally clause, lines 93-99
Conclude(i, o) ==
    /\ markdownOutput' = OutputAfter(o, markdownOutput)
    /\ error' = ErrorAfter(o, error)
    /\ isLoading' = LoadingAfter(o, isLoading)
    /\ uncaught' = (uncaught \/ (o.kind = "throw" /\ ~Handled(o)))
    /\ posts' = PostsAfter(o, posts)
    /\ inflight' = RemoveAt(inflight, i)
    /\ UNCHANGED <<inputText, copyButtonText, showPreview, triggers, timers, clipboard>>

\* line 66: fetch resolves with a response (whatever its HTTP status)
FetchResolves(i) ==
    /\ inflight[i].stage = "fetch"
    /\ inflight' = [inflight EXCEPT ![i].stage = "json"]
    /\ lastEvent' = Event("fetch resolved", Absent, "")
    /\ UNCHANGED <<ui, triggers, posts, uncaught, timers, clipboard>>

\* line 66: fetch rejects
FetchRejects(i) ==
    /\ inflight[i].stage = "fetch"
    /\ lastEvent' = Event("fetch rejected", Absent, "")
    /\ Conclude(i, Thrown("fetch", FailedToFetch))

\* line 73: response.json() settles on a body out of `bodies`
JsonSettlesIn(bodies, i) ==
    /\ inflight[i].stage = "json"
    /\ \E body \in bodies :
         /\ lastEvent' = Event("json settled", Some(body), "")
         /\ Conclude(i, AfterJson(body))

JsonSettles(i) == JsonSettlesIn(Bodies, i)

-----------------------------------------------------------------------------
(* copyToClipboard, lines 103-120, and its deferred reset *)

\* the delay of setTimeout, line 113, in seconds
CopyResetDelay == 2

\* the label after document.execCommand("copy") has returned (lines 111-112)
LabelAfterCopy(label) == CopiedLabel

\* the callback of setTimeout, line 113
LabelAfterReset_Copied(label) == CopiedLabel

LabelAfterReset(label) == DefaultCopyLabel

\* the catch clause of lines 114-117
ErrorAfterCopyThrows(err) == FailedToCopy

\* the pending callbacks after setTimeout, line 113: its return value is
\* dropped and no clearTimeout exists, so the earlier ones stay
TimersAfterCopy_CancelsPending(pending) == <<CopyResetDelay>>

TimersAfterCopy(pending) == Append(pending, CopyResetDelay)

copyToClipboard ==
    IF markdownOutput = << >>
    THEN /\ lastEvent' = Event("copy", Absent, "skipped")
         /\ UNCHANGED <<ui, inflight, triggers, posts, uncaught, timers, clipboard>>
    ELSE \E r \in ExecCommandOutcomes :
           /\ lastEvent' = Event("copy", Absent, r)
           /\ clipboard' = IF r = "true" THEN markdownOutput ELSE clipboard
           /\ IF r = "throw"
              THEN /\ error' = ErrorAfterCopyThrows(error)
                   /\ UNCHANGED <<copyButtonText, timers>>
              ELSE /\ Len(timers) < MaxTimers
                   /\ copyButtonText' = LabelAfterCopy(copyButtonText)
                   /\ timers' = TimersAfterCopy(timers)
                   /\ UNCHANGED error
           /\ UNCHANGED <<inputText, markdownOutput, isLoading, showPreview,
                          inflight, triggers, posts, uncaught>>

\* the oldest pending callback is due and runs
ResetCopyLabel ==
    /\ timers # << >>
    /\ Head(timers) = 0
    /\ copyButtonText' = LabelAfterReset(copyButtonText)
    /\ timers' = Tail(timers)
    /\ lastEvent' = Event("timeout", Absent, "")
    /\ UNCHANGED <<inputText, markdownOutput, isLoading, error, showPreview,
                   inflight, triggers, posts, uncaught, clipboard>>

\* one second passes
Tick ==
    /\ \E i \in 1..Len(timers) : timers[i] > 0
    /\ timers' = [i \in 1..Len(timers) |-> IF timers[i] > 0 THEN timers[i] - 1 ELSE 0]
    /\ lastEvent' = Event("tick", Absent, "")
    /\ UNCHANGED <<ui, inflight, triggers, posts, uncaught, clipboard>>

-----------------------------------------------------------------------------
(* The controls, lines 146-252 *)

\* onChange of the text area, line 150
SetInputText(value) ==
    /\ value # inputText
    /\ inputText' = value
    /\ lastEvent' = Event("input", Absent, "")
    /\ UNCHANGED <<markdownOutput, isLoading, error, copyButtonText, showPreview,
                   inflight, triggers, posts, uncaught, timers, clipboard>>

\* onClick of Clear All, lines 193-199
ClearResets_KeepsInput ==
    /\ inputText' = inputText
    /\ markdownOutput' = << >>
    /\ error' = << >>
    /\ copyButtonText' = DefaultCopyLabel
    /\ showPreview' = FALSE

ClearResets ==
    /\ inputText' = << >>
    /\ markdownOutput' = << >>
    /\ error' = << >>
    /\ copyButtonText' = DefaultCopyLabel
    /\ showPreview' = FALSE

ClearAll ==
    /\ ClearResets
    /\ lastEvent' = Event("clear", Absent, "")
    /\ UNCHANGED <<isLoading, inflight, triggers, posts, uncaught, timers, clipboard>>

\* the argument of setShowPreview, line 226
PreviewAfterToggle_AlwaysOn(preview) == TRUE

PreviewAfterToggle(preview) == ~preview

\* onClick of the preview toggle, line 226
TogglePreview ==
    /\ showPreview' = PreviewAfterToggle(showPreview)
    /\ lastEvent' = Event("toggle", Absent, "")
    /\ UNCHANGED <<inputText, markdownOutput, isLoading, error, copyButtonText,
                   inflight, triggers, posts, uncaught, timers, clipboard>>

\* disabled={isLoading || !inputText.trim()}, line 161
ConvertEnabled_IgnoresLoading == ~IsBlank(inputText)

ConvertEnabled == ~isLoading /\ ~IsBlank(inputText)

\* disabled={isLoading}, line 201
ClearEnabled == ~isLoading

\* the output panel rendered whatever markdownOutput is
OutputPanelShown_Always == TRUE

\* {markdownOutput && (...)}, line 219: the toggle and the copy button exist
OutputPanelShown == markdownOutput # << >>

ClickConvert == ConvertEnabled /\ convertToMarkdown

ClickClear == ClearEnabled /\ ClearAll

ClickToggle == OutputPanelShown /\ TogglePreview

ClickCopy == OutputPanelShown /\ copyToClipboard

-----------------------------------------------------------------------------
(* Specifications *)

Init ==
    /\ inputText = << >>
    /\ markdownOutput = << >>
    /\ isLoading = FALSE
    /\ error = << >>
    /\ copyButtonText = DefaultCopyLabel
    /\ showPreview = FALSE
    /\ inflight = << >>
    /\ triggers = 0
    /\ posts = 0
    /\ uncaught = FALSE
    /\ timers = << >>
    /\ clipboard = << >>
    /\ lastEvent = Event("mount", Absent, "")

\* what happens without the user
Environment ==
    \/ \E i \in 1..Len(inflight) : FetchResolves(i)
    \/ \E i \in 1..Len(inflight) : FetchRejects(i)
    \/ \E i \in 1..Len(inflight) : JsonSettles(i)
    \/ ResetCopyLabel
    \/ Tick

\* the page as the user drives it: every handler behind its control
Next ==
    \/ \E value \in Inputs : SetInputText(value)
    \/ ClickConvert
    \/ ClickClear
    \/ ClickToggle
    \/ ClickCopy
    \/ Environment

Spec == Init /\ [][Next]_vars

\* the promise of fetch, line 66, settles
FetchSettles == \E i \in 1..Len(inflight) : FetchResolves(i) \/ FetchRejects(i)

\* the promise of response.json(), line 73, settles
BodySettles == \E i \in 1..Len(inflight) : JsonSettles(i)

\* the page on a network in which every request comes to an end: a pending
\* promise is eventually settled, and then its continuation runs
SpecSettling == Spec /\ WF_vars(FetchSettles) /\ WF_vars(BodySettles)

\* the handlers invoked whatever the state of their controls (section 5 of the
\* specification: programmatic invocation)
NextBypass ==
    \/ \E value \in Inputs : SetInputText(value)
    \/ convertToMarkdown
    \/ ClearAll
    \/ ClickToggle
    \/ copyToClipboard
    \/ Environment

SpecBypass == Init /\ [][NextBypass]_vars

\* ```markdown, a newline, the body, a newline, ```
Wrap(body) == <<Fence, Tag, NL>> \o body \o <<NL, Fence>>

\* the well-formed bodies over every short text and every wrapped short body
StripTexts == StringsUpTo(MaxLen) \cup {Wrap(b) : b \in StringsUpTo(MaxBody)}

StripBodies == {Parsed(Some(WellFormed(t))) : t \in StripTexts}

\* the user has typed a text
InitStrip ==
    /\ inputText = <<Chr>>
    /\ markdownOutput = << >>
    /\ isLoading = FALSE
    /\ error = << >>
    /\ copyButtonText = DefaultCopyLabel
    /\ showPreview = FALSE
    /\ inflight = << >>
    /\ triggers = 0
    /\ posts = 0
    /\ uncaught = FALSE
    /\ timers = << >>
    /\ clipboard = << >>
    /\ lastEvent = Event("input", Absent, "")

\* conversions one after the other, each answered by a well-formed body
NextStrip ==
    \/ ClickConvert
    \/ \E i \in 1..Len(inflight) : FetchResolves(i)
    \/ \E i \in 1..Len(inflight) : JsonSettlesIn(StripBodies, i)

SpecStrip == InitStrip /\ [][NextStrip]_vars

-----------------------------------------------------------------------------
(* Vocabulary of the properties.  Every step that changes the state sets   *)
(* lastEvent to the event of that step, so inside [][...]_vars a condition *)
(* on lastEvent' says which handler the step ran and what it was given.    *)

\* response.json() has just delivered the parsed body `result`
JsonSettled(result) == Event("json settled", Some(Parsed(Some(result))), "")

\* document.execCommand("copy") has just been called and did `exec`
Copied(exec) == Event("copy", Absent, exec)

\* a conversion has just left its try statement
Concluding == lastEvent'.name \in {"fetch rejected", "json settled"}

\* `part` occurs in `message`
Contains(message, part) ==
    \E i \in 1..Len(message) :
        /\ i + Len(part) - 1 <= Len(message)
        /\ SubSeq(message, i, i + Len(part) - 1) = part

\* String.prototype.trim: s without the whitespace at its start and at its end
RECURSIVE TrimEnd(_)
TrimEnd(s) ==
    IF s # << >> /\ IsSpace(s[Len(s)]) THEN TrimEnd(SubSeq(s, 1, Len(s) - 1)) ELSE s

Trim(s) == TrimEnd(SubSeq(s, SpaceRunEnd(s, 1), Len(s)))

-----------------------------------------------------------------------------
(* C1 *)

\* C1: when the only conversion in flight concludes -- fetch rejected, body
\* not JSON, body malformed, body well-formed -- isLoading is false in the
\* state right after.
C1_LoadingClearedOnEveryExit ==
    [][(Concluding /\ Len(inflight) = 1) => (inflight' = << >> /\ isLoading' = FALSE)]_vars

\* a sole conversion has just ended on a body that is not JSON
C1_Witness ==
    /\ lastEvent = Event("json settled", Some(Unparseable), "")
    /\ inflight = << >>
    /\ error = ErrorMessage(NotJson)
    /\ ~isLoading

-----------------------------------------------------------------------------
(* C2 *)

\* C2: with every handler behind its control, at most one conversion is in
\* flight, and isLoading is true exactly when one is.
C2_OneInFlightIffLoading ==
    /\ Len(inflight) <= 1
    /\ isLoading <=> (inflight # << >>)

\* the second conversion of a run is in flight, its body not yet read
C2_Witness ==
    /\ triggers = 2
    /\ inflight = <<Call(2, "json")>>
    /\ isLoading

-----------------------------------------------------------------------------
(* C3 *)

\* C3 as stated: a well-formed response whose text is a body wrapped in
\* ```markdown + newline ... newline + ``` stores exactly the body, whatever
\* the body, and leaves error empty.
C3_WrappedBodyVerbatim ==
    [][\A b \in StringsUpTo(MaxBody) :
          lastEvent' = JsonSettled(WellFormed(Wrap(b)))
              => (markdownOutput' = b /\ error' = << >>)]_vars

\* C3 as amended: it stores the body without the whitespace at its start and
\* at its end (so the body itself when it neither starts nor ends with
\* whitespace), whitespace inside the body kept, and leaves error empty.
C3_WrappedBodyTrimmed ==
    [][\A b \in StringsUpTo(MaxBody) :
          lastEvent' = JsonSettled(WellFormed(Wrap(b)))
              => (markdownOutput' = Trim(b) /\ error' = << >>)]_vars

\* a wrapped body with whitespace inside has been stored as it is
C3_Witness ==
    /\ lastEvent = JsonSettled(WellFormed(Wrap(<<Chr, NL, Chr>>)))
    /\ markdownOutput = <<Chr, NL, Chr>>
    /\ error = << >>

-----------------------------------------------------------------------------
(* C4 *)

\* C4: a parsed body without candidates, with no candidates, without content,
\* without parts or with no parts sets error to the fixed message, leaves
\* markdownOutput empty and does nothing else: the call is over and no
\* request is issued.
C4_StructuralFailure ==
    [][\A r \in Malformed :
          lastEvent' = JsonSettled(r)
              => /\ error' = FailedToGenerate
                 /\ error' # << >>
                 /\ markdownOutput' = << >>
                 /\ posts' = posts
                 /\ Len(inflight') = Len(inflight) - 1
                 /\ UNCHANGED <<inputText, copyButtonText, showPreview, triggers,
                                timers, clipboard>>]_vars

\* the body { candidates: [] } has just been handled
C4_Witness ==
    /\ lastEvent = JsonSettled(EmptyCandidates)
    /\ error = FailedToGenerate
    /\ markdownOutput = << >>
    /\ posts = 1

-----------------------------------------------------------------------------
(* C5 *)

\* the failure described by `description` has been turned into the error field
CaughtAs(description) ==
    /\ Contains(error', description)
    /\ markdownOutput' = << >>
    /\ ~uncaught'

\* C5: a rejected fetch, a body that is not JSON, a JSON null body and a first
\* part without text each end with error containing the failure's description
\* and markdownOutput empty, and no exception ever leaves convertToMarkdown.
C5_FailuresCaught ==
    [][/\ ~uncaught'
       /\ lastEvent'.name = "fetch rejected" => CaughtAs(FailedToFetch)
       /\ lastEvent' = Event("json settled", Some(Unparseable), "") => CaughtAs(NotJson)
       /\ lastEvent' = Event("json settled", Some(Parsed(Absent)), "") => CaughtAs(ReadOfNull)
       /\ lastEvent' = JsonSettled(WithParts(<<PartWithoutText>>))
              => CaughtAs(ReplaceOfUndefined)]_vars

\* a first part without text has just been handled
C5_Witness ==
    /\ lastEvent = JsonSettled(WithParts(<<PartWithoutText>>))
    /\ error = ErrorMessage(ReplaceOfUndefined)
    /\ markdownOutput = << >>
    /\ ~isLoading
    /\ ~uncaught

-----------------------------------------------------------------------------
(* C6 *)

\* C6: whatever the state convertToMarkdown is invoked in, right after it
\* markdownOutput and error are empty, copyButtonText is the default label,
\* showPreview is false, isLoading is true, inputText is what it was, and the
\* request of this call is the one just issued.
C6_ConvertResets ==
    [][lastEvent'.name = "convert"
          => /\ markdownOutput' = << >>
             /\ error' = << >>
             /\ copyButtonText' = DefaultCopyLabel
             /\ showPreview' = FALSE
             /\ isLoading' = TRUE
             /\ inputText' = inputText
             /\ inflight' = Append(inflight, Call(triggers', "fetch"))]_vars

\* a conversion has just been triggered over an output copied a moment ago
\* (no second has passed since), while the copy's reset is still pending
C6_Witness ==
    /\ lastEvent.name = "convert"
    /\ triggers = 2
    /\ timers # << >>
    /\ timers[Len(timers)] = CopyResetDelay
    /\ clipboard # << >>
    /\ markdownOutput = << >>
    /\ copyButtonText = DefaultCopyLabel
    /\ ~showPreview
    /\ isLoading

-----------------------------------------------------------------------------
(* C7 *)

\* C7: whatever the state Clear All runs in, right after it inputText,
\* markdownOutput and error are empty, copyButtonText is the default label and
\* showPreview is false, while isLoading, the conversions in flight, the
\* requests issued and the pending resets are what they were.
C7_ClearResets ==
    [][lastEvent'.name = "clear"
          => /\ inputText' = << >>
             /\ markdownOutput' = << >>
             /\ error' = << >>
             /\ copyButtonText' = DefaultCopyLabel
             /\ showPreview' = FALSE
             /\ UNCHANGED <<isLoading, inflight, triggers, posts, timers>>]_vars

\* Clear All has just run while a conversion is in flight
C7_Witness ==
    /\ lastEvent.name = "clear"
    /\ inflight # << >>
    /\ isLoading
    /\ inputText = << >>

-----------------------------------------------------------------------------
(* C8 *)

\* C8: the requests issued are as many as the conversions triggered, in every
\* state: each trigger issues one, and no outcome issues another.
C8_OnePostPerTrigger == posts = triggers

\* two conversions, the later one ended on a malformed body, and two requests
C8_Witness ==
    /\ triggers = 2
    /\ posts = 2
    /\ inflight = << >>
    /\ error = FailedToGenerate

-----------------------------------------------------------------------------
(* C9 *)

\* C9: a copy in which document.execCommand returns true sets copyButtonText
\* to "Copied!" at once and schedules its reset CopyResetDelay seconds ahead;
\* a reset runs only when its delay has passed and leaves the default label;
\* neither changes markdownOutput, error, showPreview or isLoading.
C9_CopiedThenReset ==
    [][/\ lastEvent' = Copied("true")
           => /\ markdownOutput # << >>
              /\ copyButtonText' = CopiedLabel
              /\ timers' = Append(timers, CopyResetDelay)
              /\ UNCHANGED <<markdownOutput, error, showPreview, isLoading>>
       /\ lastEvent'.name = "timeout"
           => /\ Head(timers) = 0
              /\ copyButtonText' = DefaultCopyLabel
              /\ timers' = Tail(timers)
              /\ UNCHANGED <<markdownOutput, error, showPreview, isLoading>>]_vars

\* the reset of the only copy has just run
C9_Witness ==
    /\ lastEvent.name = "timeout"
    /\ timers = << >>
    /\ clipboard = markdownOutput
    /\ markdownOutput # << >>
    /\ copyButtonText = DefaultCopyLabel

-----------------------------------------------------------------------------
(* C10 *)

\* C10: a copy in which the clipboard operation fails (document.execCommand
\* returns false, or throws) sets error to the clipboard message, leaves
\* copyButtonText and markdownOutput as they were and schedules no reset; a
\* copy with markdownOutput empty changes nothing.
C10_FailedCopy ==
    [][/\ (lastEvent' = Copied("false") \/ lastEvent' = Copied("throw"))
           => /\ error' = FailedToCopy
              /\ UNCHANGED <<copyButtonText, timers, markdownOutput>>
       /\ lastEvent' = Copied("skipped")
           => UNCHANGED <<ui, inflight, triggers, posts, uncaught, timers, clipboard>>]_vars


-----------------------------------------------------------------------------
(* C11 *)

\* C11: the preview toggle negates showPreview and changes nothing else; the
\* next toggle would give showPreview the value it had, so two toggles in a
\* row leave showPreview, and markdownOutput with it, as they were.
C11_ToggleFlips ==
    [][lastEvent'.name = "toggle"
          => /\ showPreview' = ~showPreview
             /\ PreviewAfterToggle(showPreview') = showPreview
             /\ (lastEvent.name = "toggle" => showPreview' # showPreview)
             /\ UNCHANGED <<inputText, markdownOutput, isLoading, error, copyButtonText,
                            inflight, triggers, posts, uncaught, timers, clipboard>>]_vars

\* the toggle has just been clicked over an output and the preview is off:
\* only toggles turn it on, so this is the second of two toggles
C11_Witness ==
    /\ lastEvent.name = "toggle"
    /\ markdownOutput # << >>
    /\ ~showPreview

-----------------------------------------------------------------------------
(* C12 *)

\* no fence marker occurs in t
NoFence(t) == \A i \in 1..Len(t) : t[i] # Fence

\* t starts with ```markdown or ends with ```
FencedAtAnEnd(t) ==
    \/ Len(t) >= 2 /\ t[1] = Fence /\ t[2] = Tag
    \/ t # << >> /\ t[Len(t)] = Fence

\* C12 as stated: stripping a stripped text changes nothing, whatever the
\* text, and stripping a text without fence markers gives the text back.
C12_StripIdempotent ==
    \A t \in StripTexts :
        lastEvent = JsonSettled(WellFormed(t))
            => /\ cleanedText(markdownOutput) = markdownOutput
               /\ NoFence(t) => markdownOutput = t

\* C12 as amended: stripping a text without fence markers gives the text back,
\* and stripping a stripped text changes nothing when the stripped text
\* neither starts with ```markdown nor ends with ``` (and changes it otherwise).
C12_StripStableWithoutEndFences ==
    \A t \in StripTexts :
        lastEvent = JsonSettled(WellFormed(t))
            => /\ NoFence(t) => markdownOutput = t
               /\ FencedAtAnEnd(markdownOutput) <=> cleanedText(markdownOutput) # markdownOutput

\* a text with a fence at each end has been stripped to a text without
\* fences, which a second stripping leaves as it is
C12_Witness ==
    /\ lastEvent = JsonSettled(WellFormed(Wrap(<<Chr>>)))
    /\ markdownOutput = <<Chr>>
    /\ cleanedText(markdownOutput) = markdownOutput

-----------------------------------------------------------------------------
(* C13 *)

\* the parsed bodies with the shape of lines 77-81 and those that miss it
WellFormedBodies == {Parsed(Some(WellFormed(t))) : t \in SampleTexts}

MalformedBodies == {Parsed(Some(r)) : r \in Malformed}

\* the stripped text of the first part of a well-formed body
StoredFor ==
    [b \in WellFormedBodies |->
        cleanedText(CHOOSE t \in SampleTexts : b = Parsed(Some(WellFormed(t))))]

\* C13: nothing cancels a conversion in flight.  A trigger or a Clear leaves
\* every call that is in flight in flight; whenever a call concludes, however
\* many triggers and Clears came after its own trigger and whatever else is
\* still in flight, its result is applied -- the stripped text of a
\* well-formed body to markdownOutput, the message of a malformed body to
\* error -- and isLoading becomes false.
C13_NoCancellation ==
    [][/\ lastEvent'.name \in {"convert", "clear"}
           => /\ Len(inflight') >= Len(inflight)
              /\ \A i \in 1..Len(inflight) : inflight'[i] = inflight[i]
       /\ Concluding
           => /\ isLoading' = FALSE
              /\ Len(inflight') = Len(inflight) - 1
       /\ (lastEvent'.name = "json settled" /\ lastEvent'.body[1] \in WellFormedBodies)
           => markdownOutput' = StoredFor[lastEvent'.body[1]]
       /\ (lastEvent'.name = "json settled" /\ lastEvent'.body[1] \in MalformedBodies)
           => error' = FailedToGenerate]_vars

\* the second call is still in flight, the first has just concluded: the
\* output is the first call's (the second trigger had emptied it), and
\* isLoading is false with a request outstanding
C13_Witness ==
    /\ lastEvent.name = "json settled"
    /\ Len(inflight) = 1
    /\ inflight[1].call = 2
    /\ markdownOutput # << >>
    /\ ~isLoading

-----------------------------------------------------------------------------
(* C14 *)

\* C14: a pending reset of the copy label is never cancelled.  No handler --
\* a further copy, a trigger, Clear All -- removes or delays one; each runs
\* when its own delay has passed and then sets the default label, whatever
\* the label is and however long a later copy's reset has still to wait.
C14_ResetNeverCancelled ==
    [][/\ lastEvent'.name \notin {"timeout", "tick"}
           => /\ Len(timers') >= Len(timers)
              /\ \A i \in 1..Len(timers) : timers'[i] = timers[i]
       /\ lastEvent'.name = "tick"
           => /\ Len(timers') = Len(timers)
              /\ \A i \in 1..Len(timers) : timers'[i] <= timers[i]
       /\ lastEvent'.name = "timeout"
           => /\ Head(timers) = 0
              /\ copyButtonText' = DefaultCopyLabel
              /\ timers' = Tail(timers)]_vars

\* over the output of the only conversion, the reset of an earlier copy has
\* just run while the reset of a later copy has still to wait: the label is
\* the default one before the later copy's delay has passed
C14_Witness ==
    /\ lastEvent.name = "timeout"
    /\ triggers = 1
    /\ markdownOutput # << >>
    /\ timers # << >>
    /\ Head(timers) > 0
    /\ copyButtonText = DefaultCopyLabel

-----------------------------------------------------------------------------
(* C15 *)

\* C15: isLoading becomes false only in the step in which a conversion
\* concludes (there is no timeout), and while it is true Convert and Clear
\* All are disabled: a call that never concludes leaves them so for ever.
\* On a network in which every request comes to an end, every trigger is
\* eventually followed by a state in which isLoading is false.
C15_LoadingUntilSettled ==
    /\ [][(isLoading /\ ~isLoading') => Concluding]_vars
    /\ [](isLoading => (~ConvertEnabled /\ ~ClearEnabled))
    /\ (isLoading ~> ~isLoading)

\* the second conversion of a run has just ended on a rejected fetch
C15_Witness ==
    /\ lastEvent.name = "fetch rejected"
    /\ triggers = 2
    /\ inflight = << >>
    /\ ~isLoading

-----------------------------------------------------------------------------
(* C16 *)

\* t starts with ```markdown
TaggedAtStart(t) == Len(t) >= 2 /\ t[1] = Fence /\ t[2] = Tag

\* the first position of t that is kept: after a ```markdown at the very
\* start and the whitespace behind it, else the first one
KeptFrom(t) == IF TaggedAtStart(t) THEN SpaceRunEnd(t, 3) ELSE 1

\* t, from position a on, ends with ```
FenceAtEnd(t, a) == Len(t) >= a /\ t[Len(t)] = Fence

\* the position before the longest run of whitespace that ends at position j,
\* going down no further than position a
RECURSIVE SpaceRunStart(_, _, _)
SpaceRunStart(t, j, a) ==
    IF j >= a /\ IsSpace(t[j]) THEN SpaceRunStart(t, j - 1, a) ELSE j

\* the last position of t that is kept: before a ``` at the very end and the
\* whitespace in front of it, else the last one
KeptTo(t) ==
    IF FenceAtEnd(t, KeptFrom(t)) THEN SpaceRunStart(t, Len(t) - 1, KeptFrom(t)) ELSE Len(t)

\* how many fence markers t has
RECURSIVE FenceCount(_)
FenceCount(t) ==
    IF t = << >> THEN 0
    ELSE (IF Head(t) = Fence THEN 1 ELSE 0) + FenceCount(Tail(t))

\* C16: the stored text is the response text from KeptFrom to KeptTo, as it
\* is.  So nothing goes at the start unless the text starts with ```markdown,
\* nothing goes at the end unless the text ends with ```, each end whatever
\* the other, and every other fence -- a leading one without the tag (unless
\* the text ends with it), one behind leading whitespace, one before trailing
\* whitespace, one in the middle -- is in markdownOutput.
C16_OnlyEndFencesStripped ==
    [][\A t \in StripTexts :
          lastEvent' = JsonSettled(WellFormed(t))
              => /\ markdownOutput' = SubSeq(t, KeptFrom(t), KeptTo(t))
                 /\ FenceCount(markdownOutput') =
                        FenceCount(t) - (IF TaggedAtStart(t) THEN 1 ELSE 0)
                                      - (IF FenceAtEnd(t, KeptFrom(t)) THEN 1 ELSE 0)
                 /\ (Len(t) >= 2 /\ t[1] = Fence /\ t[2] # Tag)
                        => (markdownOutput' # << >> /\ markdownOutput'[1] = Fence)
                 /\ (t # << >> /\ IsSpace(t[1]) /\ ~FenceAtEnd(t, 1))
                        => (markdownOutput' = t)
                 /\ (t # << >> /\ IsSpace(t[Len(t)]))
                        => (markdownOutput' = SubSeq(t, KeptFrom(t), Len(t)))]_vars

\* a text with a bare fence at each end has lost the one at its end only
C16_Witness ==
    /\ lastEvent = JsonSettled(WellFormed(<<Fence, Chr, Fence>>))
    /\ markdownOutput = <<Fence, Chr>>

-----------------------------------------------------------------------------
(* C17 *)

\* C17: with every handler behind its control, whenever markdownOutput is
\* empty showPreview is false and copyButtonText is the default label, and
\* whenever isLoading is true markdownOutput and error are both empty.
C17_EmptyOutputDefaults ==
    /\ markdownOutput = << >> => (~showPreview /\ copyButtonText = DefaultCopyLabel)
    /\ isLoading => (markdownOutput = << >> /\ error = << >>)

\* a conversion is in flight while the reset of a copy of the previous output
\* is still pending
C17_Witness ==
    /\ isLoading
    /\ timers # << >>
    /\ markdownOutput = << >>
    /\ error = << >>
    /\ copyButtonText = DefaultCopyLabel
    /\ ~showPreview

-----------------------------------------------------------------------------
(* C18 *)

\* the output panel and the error panel are both on the page
BothShown == markdownOutput # << >> /\ error # << >>

\* C18: with every handler behind its control, right after a conversion
\* concludes markdownOutput and error are not both non-empty; they become so
\* only by a copy that throws over an output that is there, which sets the
\* clipboard message; and from then on error changes only by a trigger or by
\* Clear All.
C18_OutputOrError ==
    [][/\ Concluding => ~BothShown'
       /\ (~BothShown /\ BothShown')
           => /\ lastEvent' = Copied("throw")
              /\ markdownOutput # << >>
              /\ markdownOutput' = markdownOutput
              /\ error' = FailedToCopy
       /\ (BothShown /\ (error' # error \/ ~BothShown'))
           => lastEvent'.name \in {"convert", "clear"}]_vars

\* the message of a copy that threw is still there, next to the output,
\* after a click on the preview toggle
C18_Witness ==
    /\ lastEvent.name = "toggle"
    /\ markdownOutput # << >>
    /\ error = FailedToCopy

-----------------------------------------------------------------------------
(* C19 *)

\* nothing of t is between the fence at its start and the fence at its end:
\* t is empty, or fence markers with whitespace only
EmptyWhenStripped(t) == KeptTo(t) < KeptFrom(t)

\* C19: a well-formed response whose text is empty once stripped concludes
\* the conversion with markdownOutput empty, error empty and isLoading false:
\* neither the output panel nor the error panel is shown.
C19_EmptyTextNoError ==
    [][\A t \in StripTexts :
          (lastEvent' = JsonSettled(WellFormed(t)) /\ EmptyWhenStripped(t))
              => /\ cleanedText(t) = << >>
                 /\ markdownOutput' = << >>
                 /\ error' = << >>
                 /\ isLoading' = FALSE
                 /\ inflight' = << >>
                 /\ ~OutputPanelShown']_vars

\* the text ```markdown``` has just been handled
C19_Witness ==
    /\ lastEvent = JsonSettled(WellFormed(<<Fence, Tag, Fence>>))
    /\ markdownOutput = << >>
    /\ error = << >>
    /\ ~isLoading

=============================================================================
